---------------------------- MODULE Spec2Model ----------------------------
(***************************************************************************)
(* Model of the intdash webhook receiver (hello-world lambda).              *)
(*                                                                         *)
(* Handler.HandleAPIGatewayProxy is a linear pipeline: validateSignature,  *)
(* extractWebhookBody, the event check, IntdashAPI.FetchFloat64DataPoints, *)
(* makeNotificationBody, PublishSNS.  Every invocation is a process with   *)
(* its own program counter and locals; the Handler struct is shared.       *)
(*                                                                         *)
(* Abstractions, stated once:                                              *)
(*  - a byte is 0..255; SHA-256 is replaced by a small mixing function     *)
(*    with a DigestLen-byte output, HMAC keeps its nested ipad/opad shape; *)
(*  - the request body is a sequence of JSON tokens; its bytes (the input  *)
(*    of the HMAC) are the tokens' codes;                                  *)
(*  - a float64 is an exact rational num/den, with 0/0 for NaN and +-1/0   *)
(*    for the infinities; for the small integer inputs drawn here the      *)
(*    six-decimal rendering of the exact value and of the float64 agree.   *)
(***************************************************************************)
EXTENDS Integers, Sequences, FiniteSets, TLC

VARIABLES
    h,                \* the shared *Handler
    alive,            \* the process is running (no panic has left a handler)
    request,          \* request[i]: events.APIGatewayProxyRequest of invocation i
    pc,               \* pc[i]: position of invocation i in HandleAPIGatewayProxy
    sigErr,           \* sigErr[i]: what validateSignature returned
    body,             \* body[i]: the *WebhookBody extractWebhookBody returned
    dataPoints,       \* dataPoints[i]: the series the fetch returned
    avg,              \* avg[i]: local of makeNotificationBody
    variance,         \* variance[i]: local of makeNotificationBody
    notificationBody, \* notificationBody[i]: the formatted message
    response,         \* response[i]: events.APIGatewayProxyResponse returned
    parseCalls,       \* parseCalls[i]: number of json.Unmarshal calls made
    fetchCalls,       \* fetchCalls[i]: arguments of the FetchFloat64DataPoints calls
    fetchRet,         \* fetchRet[i]: what the fetch collaborator returned
    publishCalls,     \* publishCalls[i]: the sns.PublishInput of each Publish call
    publishRet        \* publishRet[i]: what the publish collaborator returned

vars == <<h, alive, request, pc, sigErr, body, dataPoints, avg, variance,
          notificationBody, response, parseCalls, fetchCalls, fetchRet,
          publishCalls, publishRet>>

-----------------------------------------------------------------------------
(* Bounds *)

\* invocations running concurrently on the one Handler (SpecConc)
NumInv == 2
\* longest series the fetch collaborator returns
MaxSeries == 3
\* bytes of a digest (sha256.Size is 32: 32 % 3 = 2 = DigestLen % 3, so the
\* encoded digest ends in the same partial, padded quantum)
DigestLen == 2

Invocations == 1 .. NumInv

-----------------------------------------------------------------------------
(* Bytes *)

RECURSIVE XorN(_, _, _)
XorN(a, b, n) ==
    IF n = 0 THEN 0
    ELSE (2 * XorN(a \div 2, b \div 2, n - 1)) + ((a + b) % 2)

Xor(a, b) == XorN(a, b, 8)

\* s with the bit `bit` (0..7) of its byte number k flipped
FlipBit(s, k, bit) ==
    [s EXCEPT ![k] = Xor(@, 2 ^ bit)]

-----------------------------------------------------------------------------
(* encoding/base64, StdEncoding *)

Alphabet ==
    << "A", "B", "C", "D", "E", "F", "G", "H", "I", "J", "K", "L", "M",
       "N", "O", "P", "Q", "R", "S", "T", "U", "V", "W", "X", "Y", "Z",
       "a", "b", "c", "d", "e", "f", "g", "h", "i", "j", "k", "l", "m",
       "n", "o", "p", "q", "r", "s", "t", "u", "v", "w", "x", "y", "z",
       "0", "1", "2", "3", "4", "5", "6", "7", "8", "9", "+", "/" >>

PadChar == "="

\* decodeMap: the 6-bit value of an alphabet character, -1 for any other
DecodeMap(c) ==
    IF \E k \in 1 .. 64 : Alphabet[k] = c
    THEN (CHOOSE k \in 1 .. 64 : Alphabet[k] = c) - 1
    ELSE -1

\* DecodeString skips '\r' and '\n' wherever they stand
StripNewlines(s) == SelectSeq(s, LAMBDA c : c # "\n" /\ c # "\r")

CorruptInput == [ok |-> FALSE, bytes |-> << >>]

RECURSIVE DecodeQuanta(_)
DecodeQuanta(s) ==
    IF s = << >> THEN [ok |-> TRUE, bytes |-> << >>]
    ELSE IF Len(s) < 4 THEN CorruptInput
    ELSE LET v1 == DecodeMap(s[1])
             v2 == DecodeMap(s[2])
             v3 == DecodeMap(s[3])
             v4 == DecodeMap(s[4])
             b1 == (v1 * 4) + (v2 \div 16)
             b2 == ((v2 % 16) * 16) + (v3 \div 4)
             b3 == ((v3 % 4) * 64) + v4
         IN  IF v1 = -1 \/ v2 = -1 THEN CorruptInput
             ELSE IF v3 = -1
             THEN IF s[3] = PadChar /\ s[4] = PadChar /\ Len(s) = 4
                  THEN [ok |-> TRUE, bytes |-> <<b1>>]
                  ELSE CorruptInput
             ELSE IF v4 = -1
             THEN IF s[4] = PadChar /\ Len(s) = 4
                  THEN [ok |-> TRUE, bytes |-> <<b1, b2>>]
                  ELSE CorruptInput
             ELSE LET rest == DecodeQuanta(SubSeq(s, 5, Len(s)))
                  IN  IF rest.ok
                      THEN [ok |-> TRUE, bytes |-> <<b1, b2, b3>> \o rest.bytes]
                      ELSE CorruptInput

\* base64.StdEncoding.DecodeString
DecodeString(s) == DecodeQuanta(StripNewlines(s))

\* base64.StdEncoding.EncodeToString
RECURSIVE EncodeToString(_)
EncodeToString(b) ==
    IF b = << >> THEN << >>
    ELSE IF Len(b) = 1
    THEN << Alphabet[(b[1] \div 4) + 1], Alphabet[((b[1] % 4) * 16) + 1],
            PadChar, PadChar >>
    ELSE IF Len(b) = 2
    THEN << Alphabet[(b[1] \div 4) + 1],
            Alphabet[((b[1] % 4) * 16) + (b[2] \div 16) + 1],
            Alphabet[((b[2] % 16) * 4) + 1], PadChar >>
    ELSE << Alphabet[(b[1] \div 4) + 1],
            Alphabet[((b[1] % 4) * 16) + (b[2] \div 16) + 1],
            Alphabet[((b[2] % 16) * 4) + (b[3] \div 64) + 1],
            Alphabet[(b[3] % 64) + 1] >> \o EncodeToString(SubSeq(b, 4, Len(b)))

-----------------------------------------------------------------------------
(* crypto/hmac over the stand-in hash *)

RECURSIVE Mix(_, _)
Mix(seed, bytes) ==
    IF bytes = << >> THEN seed
    ELSE Mix(((seed * 31) + bytes[1] + 7) % 256, Tail(bytes))

\* the stand-in for sha256.Sum: DigestLen bytes, each a different mixing
Sum(bytes) == [k \in 1 .. DigestLen |-> Mix(k * 17, bytes)]

\* hmac.New(sha256.New, key); Write(msg); Sum(nil)
HMAC(key, msg) ==
    LET ipad == [k \in 1 .. Len(key) |-> Xor(key[k], 54)]
        opad == [k \in 1 .. Len(key) |-> Xor(key[k], 92)]
    IN  Sum(opad \o Sum(ipad \o msg))

\* a comparison that forgets the lengths (mutation of HmacEqual)
HmacEqualPrefix(a, b) ==
    \A k \in 1 .. (IF Len(a) < Len(b) THEN Len(a) ELSE Len(b)) : a[k] = b[k]

\* hmac.Equal: subtle.ConstantTimeCompare(a, b) = 1
HmacEqual(a, b) ==
    /\ Len(a) = Len(b)
    /\ \A k \in 1 .. Len(a) : a[k] = b[k]

-----------------------------------------------------------------------------
(* encoding/json: the request body as a sequence of tokens *)

\* the string literals that occur in the bodies, with their contents
StringLiteral ==
    ("\"resource_type\"" :> "resource_type") @@
    ("\"Resource_Type\"" :> "Resource_Type") @@
    ("\"action\"" :> "action") @@
    ("\"measurement_uuid\"" :> "measurement_uuid") @@
    ("\"extra\"" :> "extra") @@
    ("\"measurement\"" :> "measurement") @@
    ("\"completed\"" :> "completed") @@
    ("\"other\"" :> "other") @@
    ("\"created\"" :> "created") @@
    ("\"x\"" :> "x")

IsString(tok) == tok \in DOMAIN StringLiteral
IsNumber(tok) == tok \in {"7", "0"}
IsLiteral(tok) == tok \in {"null", "true", "false"}
IsScalar(tok) == IsString(tok) \/ IsNumber(tok) \/ IsLiteral(tok)

\* every token of the bodies; a token's place is its byte code
TokenTable ==
    << "{", "}", "[", "]", ":", ",", "null", "true", "false", "7", "0",
       "\"resource_type\"", "\"Resource_Type\"", "\"action\"",
       "\"measurement_uuid\"", "\"extra\"", "\"measurement\"",
       "\"completed\"", "\"other\"", "\"created\"", "\"x\"", "hello" >>

\* []byte(request.Body)
BodyBytes(tokens) ==
    [k \in 1 .. Len(tokens) |->
        CHOOSE c \in 1 .. Len(TokenTable) : TokenTable[c] = tokens[k]]

\* the members of an object, without its braces
Members(tokens) == SubSeq(tokens, 2, Len(tokens) - 1)

\* name : value , name : value ...
ValidMembers(m) ==
    \/ m = << >>
    \/ /\ Len(m) % 4 = 3
       /\ \A k \in 1 .. Len(m) :
            CASE k % 4 = 1 -> IsString(m[k])
              [] k % 4 = 2 -> m[k] = ":"
              [] k % 4 = 3 -> IsScalar(m[k])
              [] OTHER     -> m[k] = ","

\* json's checkValid, for scalars, the empty array and flat objects
ValidJSON(tokens) ==
    \/ Len(tokens) = 1 /\ IsScalar(tokens[1])
    \/ tokens = << "[", "]" >>
    \/ /\ Len(tokens) >= 2
       /\ tokens[1] = "{"
       /\ tokens[Len(tokens)] = "}"
       /\ ValidMembers(Members(tokens))

\* the struct's field a key names: the json tag, matched exactly or, failing
\* that, case-insensitively
FoldedKey ==
    ("resource_type" :> "resource_type") @@
    ("Resource_Type" :> "resource_type") @@
    ("action" :> "action") @@
    ("measurement_uuid" :> "measurement_uuid") @@
    ("extra" :> "extra")

FoldKey(key) == IF key \in DOMAIN FoldedKey THEN FoldedKey[key] ELSE key

FieldOf(key) ==
    CASE FoldKey(key) = "resource_type"    -> "ResourceType"
      [] FoldKey(key) = "action"           -> "Action"
      [] FoldKey(key) = "measurement_uuid" -> "MeasurementUUID"
      [] OTHER                             -> "none"

\* var body WebhookBody
ZeroWebhookBody == [ResourceType |-> "", Action |-> "", MeasurementUUID |-> ""]

\* the decoding of the members in their order: a string sets its field, null
\* leaves it, any other value is an UnmarshalTypeError (and decoding goes on)
RECURSIVE DecodeMembers(_, _)
DecodeMembers(m, acc) ==
    IF Len(m) < 3 THEN acc
    ELSE LET field == FieldOf(StringLiteral[m[1]])
             val   == m[3]
             next  ==
                IF field = "none" \/ val = "null" THEN acc
                ELSE IF IsString(val)
                THEN [acc EXCEPT !.body = [@ EXCEPT ![field] = StringLiteral[val]]]
                ELSE [acc EXCEPT !.err = IF @ = "nil" THEN "type" ELSE @]
         IN  DecodeMembers(SubSeq(m, 5, Len(m)), next)

\* json.Unmarshal([]byte(request.Body), &body)
Unmarshal(tokens) ==
    IF ~ValidJSON(tokens) THEN [err |-> "syntax", body |-> ZeroWebhookBody]
    ELSE IF tokens = << "null" >> THEN [err |-> "nil", body |-> ZeroWebhookBody]
    ELSE IF tokens[1] # "{" THEN [err |-> "type", body |-> ZeroWebhookBody]
    ELSE DecodeMembers(Members(tokens), [err |-> "nil", body |-> ZeroWebhookBody])

-----------------------------------------------------------------------------
(* float64 as an exact rational; 0/0 is NaN, 1/0 and -1/0 the infinities *)

RECURSIVE GCD(_, _)
GCD(a, b) == IF b = 0 THEN a ELSE GCD(b, a % b)

Abs(n) == IF n < 0 THEN -n ELSE n
Sign(n) == IF n < 0 THEN -1 ELSE IF n > 0 THEN 1 ELSE 0

Norm(n, d) ==
    IF d = 0 THEN [num |-> Sign(n), den |-> 0]
    ELSE LET g == GCD(Abs(n), Abs(d))
         IN  [num |-> Sign(d) * (n \div g), den |-> Abs(d) \div g]

\* float64(n)
Float(n) == [num |-> n, den |-> 1]
NaN == [num |-> 0, den |-> 0]
IsNaN(x) == x.den = 0 /\ x.num = 0

FAdd(x, y) == Norm((x.num * y.den) + (y.num * x.den), x.den * y.den)
FSub(x, y) == Norm((x.num * y.den) - (y.num * x.den), x.den * y.den)
FMul(x, y) == Norm(x.num * y.num, x.den * y.den)
FDiv(x, y) == Norm(x.num * y.den, x.den * y.num)

-----------------------------------------------------------------------------
(* fmt.Sprintf("%f", x): six decimals, the exact value rounded half to even *)

RECURSIVE Pow10(_)
Pow10(k) == IF k = 0 THEN 1 ELSE 10 * Pow10(k - 1)

\* the first k decimals of r/d (0 <= r < d), as a number
RECURSIVE Decimals(_, _, _)
Decimals(r, d, k) ==
    IF k = 0 THEN [digits |-> 0, rem |-> r]
    ELSE LET p == Decimals(r, d, k - 1)
         IN  [digits |-> (p.digits * 10) + ((p.rem * 10) \div d),
              rem    |-> (p.rem * 10) % d]

RECURSIVE ZeroPadded(_, _)
ZeroPadded(n, k) ==
    IF k = 0 THEN "" ELSE ZeroPadded(n \div 10, k - 1) \o ToString(n % 10)

FormatF(x) ==
    IF x.den = 0
    THEN (IF x.num = 0 THEN "NaN" ELSE IF x.num > 0 THEN "+Inf" ELSE "-Inf")
    ELSE LET n     == Abs(x.num)
             ip    == n \div x.den
             dec   == Decimals(n % x.den, x.den, 6)
             up    == \/ 2 * dec.rem > x.den
                      \/ 2 * dec.rem = x.den /\ dec.digits % 2 = 1
             frac  == dec.digits + (IF up THEN 1 ELSE 0)
             carry == frac = Pow10(6)
         IN  (IF x.num < 0 THEN "-" ELSE "")
             \o ToString(IF carry THEN ip + 1 ELSE ip) \o "."
             \o ZeroPadded(IF carry THEN 0 ELSE frac, 6)

\* fmt.Sprintf("Average: %f\n"+"Unbiased Variance: %f\n", avg, variance)
Sprintf(a, v) ==
    "Average: " \o FormatF(a) \o "\n" \o "Unbiased Variance: " \o FormatF(v) \o "\n"

-----------------------------------------------------------------------------
(* makeNotificationBody *)

\* for _, v := range dataPoints { sum += v }
RECURSIVE SumLoop(_)
SumLoop(points) ==
    IF points = << >> THEN Float(0)
    ELSE FAdd(SumLoop(SubSeq(points, 1, Len(points) - 1)), Float(points[Len(points)]))

\* for _, v := range dataPoints { dss += (v - avg) * (v - avg) }
RECURSIVE DssLoop(_, _)
DssLoop(points, mean) ==
    IF points = << >> THEN Float(0)
    ELSE LET dev == FSub(Float(points[Len(points)]), mean)
         IN  FAdd(DssLoop(SubSeq(points, 1, Len(points) - 1), mean), FMul(dev, dev))

\* avg := sum / float64(len(dataPoints))
Average(points) == FDiv(SumLoop(points), Float(Len(points)))

\* the biased estimator: division by the count (mutation of Variance)
VarianceBiased(points) ==
    IF Len(points) > 1
    THEN FDiv(DssLoop(points, Average(points)), Float(Len(points)))
    ELSE Float(0)

\* var variance float64; if len(dataPoints) > 1 { ... dss / float64(len-1) }
Variance(points) ==
    IF Len(points) > 1
    THEN FDiv(DssLoop(points, Average(points)), Float(Len(points) - 1))
    ELSE Float(0)

makeNotificationBody(points) == Sprintf(Average(points), Variance(points))

-----------------------------------------------------------------------------
(* The request and the signature check *)

IntdashSignatureHeader == "x-intdash-signature-256"

\* request.Headers[name]: the empty string when the map has no such key
HeaderValue(headers, name) ==
    IF name \in DOMAIN headers THEN headers[name] ELSE << >>

\* a check that accepts whatever decodes (mutation of validateSignature)
validateSignatureNoCompare(hd, req) ==
    LET signature == HeaderValue(req.Headers, IntdashSignatureHeader)
    IN  IF signature = << >> THEN "empty"
        ELSE IF ~DecodeString(signature).ok THEN "decode"
        ELSE "nil"

\* validateSignature: "nil", or the error it returns
validateSignature(hd, req) ==
    LET signature == HeaderValue(req.Headers, IntdashSignatureHeader)
        wantSum   == DecodeString(signature)
        sum       == HMAC(hd.SHA256Key, BodyBytes(req.Body))
    IN  IF signature = << >> THEN "empty"
        ELSE IF ~wantSum.ok THEN "decode"
        ELSE IF ~HmacEqual(wantSum.bytes, sum) THEN "mismatch"
        ELSE "nil"

\* extractWebhookBody: json.Unmarshal into a WebhookBody
extractWebhookBody(req) == Unmarshal(req.Body)

\* a check of the resource type alone (mutation of Supported)
SupportedAnyAction(b) == b.ResourceType = "measurement"

\* body.ResourceType == "measurement" && body.Action == "completed"
Supported(b) == b.ResourceType = "measurement" /\ b.Action = "completed"

-----------------------------------------------------------------------------
(* Responses *)

Response(status, text) == [StatusCode |-> status, Body |-> text]

NoResponse == Response(0, "")
InvalidSignature == Response(400, "Invalid signature")
InvalidRequestBody == Response(400, "Invalid request body")
Unsupported == Response(422, "Unsupported resource type or action")
FetchFailed == Response(500, "Failed to fetch data points")
PublishFailed == Response(500, "Failed to publish SNS")
NoContent == Response(204, "")

Documented ==
    { InvalidSignature, InvalidRequestBody, Unsupported, FetchFailed,
      PublishFailed, NoContent }

-----------------------------------------------------------------------------
(* The inputs drawn *)

\* Handler.SHA256Key: the embedded secret
Keys == { << 107, 49 >>, << 9 >> }

\* Handler.SNSTopicArn: SNS_TOPIC_ARN, never empty
Topics == { "arn:aws:sns:topic-a", "arn:aws:sns:topic-b" }

Obj(members) == << "{" >> \o members \o << "}" >>
RT(v) == << "\"resource_type\"", ":", v >>
Act(v) == << "\"action\"", ":", v >>
Uuid(v) == << "\"measurement_uuid\"", ":", v >>
Comma == << "," >>

\* {"resource_type":"measurement","action":"completed","measurement_uuid":"x"}
CompletedBody ==
    Obj(RT("\"measurement\"") \o Comma \o Act("\"completed\"") \o Comma \o Uuid("\"x\""))

OtherResourceBody ==
    Obj(RT("\"other\"") \o Comma \o Act("\"completed\"") \o Comma \o Uuid("\"x\""))

\* bodies the decoder accepts and the event check lets through
PassingBodies ==
    { CompletedBody,
      Obj(RT("\"measurement\"") \o Comma \o Act("\"completed\"")),
      Obj(<< "\"Resource_Type\"", ":", "\"measurement\"" >> \o Comma
          \o Act("\"completed\"") \o Comma \o Uuid("\"x\"")),
      Obj(Act("\"created\"") \o Comma \o Act("\"completed\"") \o Comma
          \o RT("\"measurement\"") \o Comma \o << "\"extra\"", ":", "7" >>) }

\* bodies the decoder accepts and the event check stops
UnsupportedBodies ==
    { OtherResourceBody,
      Obj(RT("\"measurement\"") \o Comma \o Act("\"created\"") \o Comma \o Uuid("\"x\"")),
      Obj(Act("\"completed\"") \o Comma \o Uuid("\"x\"")),
      Obj(RT("\"measurement\"") \o Comma \o Uuid("\"x\"")),
      Obj(RT("null") \o Comma \o Act("\"completed\"")),
      Obj(Uuid("\"x\"")),
      Obj(<< >>),
      << "null" >> }

\* bodies the decoder rejects: not JSON, or JSON of another shape
RejectedBodies ==
    { << >>,
      << "hello" >>,
      << "{", "\"resource_type\"" >>,
      Obj(RT("\"measurement\"") \o Comma),
      << "[", "]" >>,
      << "7" >>,
      << "\"measurement\"" >>,
      Obj(RT("7") \o Comma \o Act("\"completed\"")),
      Obj(RT("\"measurement\"") \o Comma \o Act("true")) }

Bodies == PassingBodies \cup UnsupportedBodies \cup RejectedBodies

\* base64(HMAC-SHA256(key, body))
Signed(key, tokens) == EncodeToString(HMAC(key, BodyBytes(tokens)))

\* another encoding of the same bytes: the spare bits of the last character
\* before the padding are not checked by StdEncoding
Spare(s) ==
    IF s # << >> /\ s[Len(s)] = PadChar
    THEN LET k == CHOOSE j \in 1 .. (Len(s) - 1) : s[j] # PadChar /\ s[j + 1] = PadChar
         IN  [s EXCEPT ![k] = Alphabet[DecodeMap(@) + 2]]
    ELSE s

\* signatures decoding to the digest
GoodSignatures(key, tokens) ==
    LET s == Signed(key, tokens)
    IN  { s, Spare(s), s \o << "\n" >>, << s[1], "\r", "\n" >> \o Tail(s) }

\* the digest with one bit flipped, encoded
BitFlips(key, tokens) ==
    LET d == HMAC(key, BodyBytes(tokens))
    IN  { EncodeToString(FlipBit(d, k, bit)) : k \in 1 .. DigestLen, bit \in 0 .. 7 }

\* signatures decoding to other bytes than the digest
WrongSignatures(key, tokens) ==
    LET d == HMAC(key, BodyBytes(tokens))
    IN  BitFlips(key, tokens)
        \cup { Signed(k, tokens) : k \in Keys \ {key} }
        \cup { Signed(key, b) : b \in {CompletedBody, OtherResourceBody} \ {tokens} }
        \cup { EncodeToString(SubSeq(d, 1, DigestLen - 1)),
               EncodeToString(d \o << 0 >>),
               EncodeToString(d \o d) }

\* signatures that are not base64
MalformedSignatures(key, tokens) ==
    LET s == Signed(key, tokens)
    IN  { << "!" >>,
          << "A" >>,
          SubSeq(s, 1, 3),
          [s EXCEPT ![2] = "*"],
          << "=" >> \o s,
          s \o << "A" >>,
          s \o << PadChar >>,
          << "A", "A", PadChar, "A" >> }

Headers(sigs) ==
    { << >> } \cup { (IntdashSignatureHeader :> s) : s \in sigs \cup { << >> } }
              \cup { ("X-Intdash-Signature-256" :> s) : s \in sigs }

\* every request of the signature check's specification
VerifyRequests(key) ==
    { [Headers |-> hd, Body |-> b] :
        hd \in UNION { Headers(GoodSignatures(key, t) \cup WrongSignatures(key, t)
                               \cup MalformedSignatures(key, t)) :
                       t \in {CompletedBody, OtherResourceBody} },
        b \in {CompletedBody, OtherResourceBody, << "hello" >>} }

\* the requests of the handler's specification: every body, under a good
\* signature and under one of each kind of bad one
Requests(key) ==
    { [Headers |-> hd, Body |-> b] :
        hd \in UNION { Headers({ Signed(key, t), Spare(Signed(key, t)),
                                 EncodeToString(FlipBit(HMAC(key, BodyBytes(t)), 1, 0)),
                                 << "!" >> }) : t \in {CompletedBody} },
        b \in Bodies }
    \cup { [Headers |-> (IntdashSignatureHeader :> Signed(key, b)), Body |-> b] :
             b \in Bodies }

\* the values of the series
Values == { 10, 20, 30 }

RECURSIVE SeriesUpTo(_, _)
SeriesUpTo(vals, n) ==
    IF n = 0 THEN { << >> }
    ELSE LET shorter == SeriesUpTo(vals, n - 1)
         IN  shorter \cup { Append(s, v) : s \in shorter, v \in vals }

\* IntdashAPI.FetchFloat64DataPoints returns ([]float64, error): an error, or
\* a series (the empty one included) without error
FetchReturn(err, points) == [err |-> err, points |-> points]

FetchReturns ==
    { FetchReturn("error", << >>) }
    \cup { FetchReturn("nil", s) :
             s \in SeriesUpTo(Values, MaxSeries) \cup { << 100 >>, << 98, 102 >> } }

\* SNSPublishAPI.Publish returns (*sns.PublishOutput, error): an error, an
\* output with its MessageId, an output whose MessageId is nil, a nil output
PublishReturns ==
    { [err |-> "error", out |-> "nil"],
      [err |-> "nil", out |-> "MessageId"],
      [err |-> "nil", out |-> "no MessageId"],
      [err |-> "nil", out |-> "nil"] }

\* a wider range of values, for makeNotificationBody
AggregateValues == { -5, 0, 1, 10, 98, 102 }

AggregateReturns ==
    { FetchReturn("nil", s) :
        s \in SeriesUpTo(AggregateValues, MaxSeries)
              \cup { << 100 >>, << 98, 102 >>, << 10, 20, 30 >> } }

\* a few returns of each kind, for the concurrent invocations
ConcFetchReturns ==
    { FetchReturn("error", << >>), FetchReturn("nil", << 10, 20, 30 >>) }

ConcPublishReturns ==
    { [err |-> "error", out |-> "nil"],
      [err |-> "nil", out |-> "MessageId"],
      [err |-> "nil", out |-> "no MessageId"] }

\* the implementations of IntdashAPI a Handler may hold, each given by what
\* its FetchFloat64DataPoints may return
FetchBehaviour ==
    ("IntdashAPI: any" :> FetchReturns) @@
    ("IntdashAPI: any series" :> AggregateReturns) @@
    ("IntdashAPI: few" :> ConcFetchReturns)

\* the implementations of SNSPublishAPI, each given by what its Publish may
\* return
PublishBehaviour ==
    ("SNSPublishAPI: any" :> PublishReturns) @@
    ("SNSPublishAPI: few" :> ConcPublishReturns)

\* the Handler provideLambdaHandler builds, with the collaborators given
Handlers(intdashAPI, snsPublishAPI) ==
    [ SHA256Key     : Keys,
      SNSTopicArn   : Topics,
      IntdashAPI    : { intdashAPI },
      SNSPublishAPI : { snsPublishAPI } ]

-----------------------------------------------------------------------------
(* HandleAPIGatewayProxy, one action per step of invocation i *)

NoRequest == [Headers |-> << >>, Body |-> << >>]

\* the state when the invocations of `running` enter the handler
Entered(hd, reqs, running) ==
    /\ h = hd
    /\ alive = TRUE
    /\ request = reqs
    /\ pc = [i \in Invocations |-> IF i \in running THEN "validate" ELSE "idle"]
    /\ sigErr = [i \in Invocations |-> "none"]
    /\ body = [i \in Invocations |-> ZeroWebhookBody]
    /\ dataPoints = [i \in Invocations |-> << >>]
    /\ avg = [i \in Invocations |-> Float(0)]
    /\ variance = [i \in Invocations |-> Float(0)]
    /\ notificationBody = [i \in Invocations |-> ""]
    /\ response = [i \in Invocations |-> NoResponse]
    /\ parseCalls = [i \in Invocations |-> 0]
    /\ fetchCalls = [i \in Invocations |-> << >>]
    /\ fetchRet = [i \in Invocations |-> FetchReturn("none", << >>)]
    /\ publishCalls = [i \in Invocations |-> << >>]
    /\ publishRet = [i \in Invocations |-> [err |-> "none", out |-> "none"]]

\* return events.APIGatewayProxyResponse{...}, nil
Return(i, resp) ==
    /\ response' = [response EXCEPT ![i] = resp]
    /\ pc' = [pc EXCEPT ![i] = "done"]

Goto(i, label) ==
    /\ pc' = [pc EXCEPT ![i] = label]
    /\ UNCHANGED response

\* if err := h.validateSignature(ctx, request); err != nil { return 400 }
ValidateSignature(i) ==
    /\ alive /\ pc[i] = "validate"
    /\ LET err == validateSignature(h, request[i])
       IN  /\ sigErr' = [sigErr EXCEPT ![i] = err]
           /\ IF err # "nil" THEN Return(i, InvalidSignature) ELSE Goto(i, "extract")
    /\ UNCHANGED <<h, alive, request, body, dataPoints, avg, variance,
                   notificationBody, parseCalls, fetchCalls, fetchRet,
                   publishCalls, publishRet>>

\* body, err := h.extractWebhookBody(ctx, request); if err != nil { return 400 }
ExtractWebhookBody(i) ==
    /\ alive /\ pc[i] = "extract"
    /\ parseCalls' = [parseCalls EXCEPT ![i] = @ + 1]
    /\ LET r == extractWebhookBody(request[i])
       IN  IF r.err # "nil"
           THEN /\ Return(i, InvalidRequestBody)
                /\ UNCHANGED body
           ELSE /\ body' = [body EXCEPT ![i] = r.body]
                /\ Goto(i, "check")
    /\ UNCHANGED <<h, alive, request, sigErr, dataPoints, avg, variance,
                   notificationBody, fetchCalls, fetchRet, publishCalls,
                   publishRet>>

\* if !(body.ResourceType == "measurement" && body.Action == "completed") { return 422 }
CheckEvent(i) ==
    /\ alive /\ pc[i] = "check"
    /\ IF ~Supported(body[i]) THEN Return(i, Unsupported) ELSE Goto(i, "fetch")
    /\ UNCHANGED <<h, alive, request, sigErr, body, dataPoints, avg, variance,
                   notificationBody, parseCalls, fetchCalls, fetchRet,
                   publishCalls, publishRet>>

\* a fetch whose error is dropped: the handler goes on with the series it
\* got (mutation of FetchDataPoints)
FetchDataPointsIgnoringError(i) ==
    /\ alive /\ pc[i] = "fetch"
    /\ \E ret \in FetchBehaviour[h.IntdashAPI] :
        /\ fetchCalls' = [fetchCalls EXCEPT ![i] = Append(@, body[i].MeasurementUUID)]
        /\ fetchRet' = [fetchRet EXCEPT ![i] = ret]
        /\ dataPoints' = [dataPoints EXCEPT ![i] = ret.points]
        /\ Goto(i, "aggregate")
    /\ UNCHANGED <<h, alive, request, sigErr, body, avg, variance,
                   notificationBody, parseCalls, publishCalls, publishRet>>

\* dataPoints, err := h.IntdashAPI.FetchFloat64DataPoints(ctx, body.MeasurementUUID)
\* if err != nil { return 500 }
FetchDataPoints(i) ==
    /\ alive /\ pc[i] = "fetch"
    /\ \E ret \in FetchBehaviour[h.IntdashAPI] :
        /\ fetchCalls' = [fetchCalls EXCEPT ![i] = Append(@, body[i].MeasurementUUID)]
        /\ fetchRet' = [fetchRet EXCEPT ![i] = ret]
        /\ IF ret.err # "nil"
           THEN /\ Return(i, FetchFailed)
                /\ UNCHANGED dataPoints
           ELSE /\ dataPoints' = [dataPoints EXCEPT ![i] = ret.points]
                /\ Goto(i, "aggregate")
    /\ UNCHANGED <<h, alive, request, sigErr, body, avg, variance,
                   notificationBody, parseCalls, publishCalls, publishRet>>

\* notificationBody := h.makeNotificationBody(dataPoints)
MakeNotificationBody(i) ==
    /\ alive /\ pc[i] = "aggregate"
    /\ avg' = [avg EXCEPT ![i] = Average(dataPoints[i])]
    /\ variance' = [variance EXCEPT ![i] = Variance(dataPoints[i])]
    /\ notificationBody' =
          [notificationBody EXCEPT ![i] = makeNotificationBody(dataPoints[i])]
    /\ Goto(i, "publish")
    /\ UNCHANGED <<h, alive, request, sigErr, body, dataPoints, parseCalls,
                   fetchCalls, fetchRet, publishCalls, publishRet>>

\* an input without its topic (mutation of PublishInput)
PublishInputNoTopic(hd, text) == [TopicArn |-> "", Message |-> text]

\* the input of the one Publish call of PublishSNS
PublishInput(hd, text) == [TopicArn |-> hd.SNSTopicArn, Message |-> text]

\* if err := h.PublishSNS(ctx, notificationBody); err != nil { return 500 }
\* return 204.  PublishSNS dereferences out.MessageId when Publish returned no
\* error: with a nil output or a nil MessageId that is a panic, which leaves
\* the handler without a response and, nothing recovering it, ends the process.
PublishSNS(i) ==
    /\ alive /\ pc[i] = "publish"
    /\ \E ret \in PublishBehaviour[h.SNSPublishAPI] :
        /\ publishCalls' =
              [publishCalls EXCEPT ![i] = Append(@, PublishInput(h, notificationBody[i]))]
        /\ publishRet' = [publishRet EXCEPT ![i] = ret]
        /\ IF ret.err # "nil"
           THEN Return(i, PublishFailed) /\ UNCHANGED alive
           ELSE IF ret.out # "MessageId"
           THEN Goto(i, "panic") /\ alive' = FALSE
           ELSE Return(i, NoContent) /\ UNCHANGED alive
    /\ UNCHANGED <<h, request, sigErr, body, dataPoints, avg, variance,
                   notificationBody, parseCalls, fetchCalls, fetchRet>>

Step(i) ==
    \/ ValidateSignature(i)
    \/ ExtractWebhookBody(i)
    \/ CheckEvent(i)
    \/ FetchDataPoints(i)
    \/ MakeNotificationBody(i)
    \/ PublishSNS(i)

Next == \E i \in Invocations : Step(i)

\* one invocation, every request, every behaviour of the collaborators
Init ==
    \E hd \in Handlers("IntdashAPI: any", "SNSPublishAPI: any") :
        \E r \in Requests(hd.SHA256Key) :
            Entered(hd, [i \in Invocations |-> IF i = 1 THEN r ELSE NoRequest], {1})

Spec == Init /\ [][Next]_vars

-----------------------------------------------------------------------------
(* validateSignature alone: every key, a body, every kind of signature *)

InitVerify ==
    \E hd \in Handlers("IntdashAPI: any", "SNSPublishAPI: any") :
        \E r \in VerifyRequests(hd.SHA256Key) :
            Entered(hd, [i \in Invocations |-> IF i = 1 THEN r ELSE NoRequest], {1})

NextVerify == \E i \in Invocations : ValidateSignature(i)

SpecVerify == InitVerify /\ [][NextVerify]_vars

-----------------------------------------------------------------------------
(* makeNotificationBody over a wider range of series: one signed request,   *)
(* a fetch that returns any series of AggregateValues                      *)

InitAggregate ==
    \E hd \in Handlers("IntdashAPI: any series", "SNSPublishAPI: any") :
        Entered(hd,
                [i \in Invocations |->
                    IF i = 1
                    THEN [Headers |-> (IntdashSignatureHeader
                                          :> Signed(hd.SHA256Key, CompletedBody)),
                          Body |-> CompletedBody]
                    ELSE NoRequest],
                {1})

SpecAggregate == InitAggregate /\ [][Next]_vars

-----------------------------------------------------------------------------
(* NumInv invocations at once on the one Handler *)

ConcRequests(key) ==
    { [Headers |-> (IntdashSignatureHeader :> Signed(key, b)), Body |-> b] :
        b \in { CompletedBody, OtherResourceBody, << "hello" >> } }
    \cup { [Headers |-> << >>, Body |-> CompletedBody] }

InitConc ==
    \E hd \in Handlers("IntdashAPI: few", "SNSPublishAPI: few") :
        \E reqs \in [Invocations -> ConcRequests(hd.SHA256Key)] :
            Entered(hd, reqs, Invocations)

SpecConc == InitConc /\ [][Next]_vars

-----------------------------------------------------------------------------
(* What the claims speak of, stated apart from the handler's own code *)

Started(i) == pc[i] # "idle"
Returned(i) == pc[i] = "done"
Ended(i) == pc[i] \in {"done", "panic"}

\* the header is the base64 of bytes equal to HMAC(key, body)
SignatureOK(hd, req) ==
    LET s == HeaderValue(req.Headers, IntdashSignatureHeader)
    IN  /\ s # << >>
        /\ DecodeString(s).ok
        /\ DecodeString(s).bytes = HMAC(hd.SHA256Key, BodyBytes(req.Body))

\* the body decodes into a WebhookBody
ParseOK(req) == Unmarshal(req.Body).err = "nil"

\* the decoded event is measurement / completed
EventOK(req) ==
    /\ Unmarshal(req.Body).body.ResourceType = "measurement"
    /\ Unmarshal(req.Body).body.Action = "completed"

\* the response of the first failing step, 204 when none fails
Expected(hd, req, fret, pret) ==
    IF ~SignatureOK(hd, req) THEN InvalidSignature
    ELSE IF ~ParseOK(req) THEN InvalidRequestBody
    ELSE IF ~EventOK(req) THEN Unsupported
    ELSE IF fret.err # "nil" THEN FetchFailed
    ELSE IF pret.err # "nil" THEN PublishFailed
    ELSE NoContent

RECURSIVE IntSum(_)
IntSum(s) == IF s = << >> THEN 0 ELSE s[1] + IntSum(Tail(s))

\* the arithmetic mean of a non-empty series
Mean(s) == Norm(IntSum(s), Len(s))

\* the sum of the squared deviations from the mean, over count - 1:
\* sum (n*v - S)^2 / (n^2 * (n - 1)), and 0 for a single value
UnbiasedVariance(s) ==
    LET n == Len(s)
        S == IntSum(s)
        sq == IntSum([k \in 1 .. n |-> ((n * s[k]) - S) * ((n * s[k]) - S)])
    IN  IF n > 1 THEN Norm(sq, n * n * (n - 1)) ELSE Float(0)

-----------------------------------------------------------------------------
(* The claims *)

\* C1: for every request and every behaviour of the collaborators, an
\* invocation that has ended has given the response of the first failing
\* step (signature, parse, event, fetch, publish), and 204 with an empty body
\* exactly when none fails.
C1_FirstFailingStep ==
    \A i \in Invocations :
        (Started(i) /\ Ended(i)) =>
            response[i] = Expected(h, request[i], fetchRet[i], publishRet[i])

\* C2: a missing, empty, undecodable or mismatching signature gives 400
\* "Invalid signature", and neither the parse, the fetch nor the publish is
\* attempted, whatever the body.
C2_BadSignatureStops ==
    \A i \in Invocations :
        (Started(i) /\ ~SignatureOK(h, request[i])) =>
            /\ parseCalls[i] = 0
            /\ fetchCalls[i] = << >>
            /\ publishCalls[i] = << >>
            /\ pc[i] \in {"validate", "done"}
            /\ Returned(i) => response[i] = InvalidSignature

\* C2 happens: a request with no usable signature and a body that is not
\* JSON has been answered 400 "Invalid signature".
C2_Witness ==
    \E i \in Invocations :
        /\ Returned(i)
        /\ ~SignatureOK(h, request[i])
        /\ ~ValidJSON(request[i].Body)
        /\ response[i] = InvalidSignature

\* C3: publish is called at most once per invocation; exactly once in an
\* invocation answering 204; never before the fetch has succeeded; and with
\* the configured topic and the message formatted from the mean and the
\* unbiased variance of the fetched series (a non-empty one: the mean of the
\* empty series is C9's).
C3_PublishOnce ==
    \A i \in Invocations :
        /\ Len(publishCalls[i]) <= 1
        /\ (Returned(i) /\ response[i] = NoContent) => Len(publishCalls[i]) = 1
        /\ publishCalls[i] # << >> =>
            /\ fetchRet[i].err = "nil"
            /\ publishCalls[i][1].TopicArn = h.SNSTopicArn
            /\ fetchRet[i].points # << >> =>
                  publishCalls[i][1].Message
                    = Sprintf(Mean(fetchRet[i].points),
                              UnbiasedVariance(fetchRet[i].points))

\* C3 happens: the series [10, 20, 30] was fetched, the message with 20 and
\* 100 published once, and the invocation answered 204.
C3_Witness ==
    \E i \in Invocations :
        /\ Returned(i) /\ response[i] = NoContent
        /\ fetchRet[i].points = << 10, 20, 30 >>
        /\ publishCalls[i] =
             << [TopicArn |-> h.SNSTopicArn,
                 Message  |-> "Average: 20.000000\nUnbiased Variance: 100.000000\n"] >>

C5_NoRetry ==
    \A i \in Invocations :
        /\ Len(fetchCalls[i]) <= 1
        /\ fetchRet[i].err = "error" =>
            /\ Returned(i)
            /\ response[i] = FetchFailed
            /\ publishCalls[i] = << >>

\* C5 happens: the one fetch failed and the invocation answered 500.
C5_Witness ==
    \E i \in Invocations :
        /\ Len(fetchCalls[i]) = 1
        /\ fetchRet[i].err = "error"
        /\ Returned(i) /\ response[i] = FetchFailed

\* C6: every invocation ends by returning one of the six documented
\* status/body pairs, whatever the collaborators return; none ends in a panic.
C6_AlwaysReturns ==
    \A i \in Invocations :
        Started(i) =>
            /\ pc[i] # "panic"
            /\ Returned(i) => response[i] \in Documented

\* C7: validateSignature succeeds on the base64 of HMAC(key, body), and fails
\* on an absent or empty header, on one that is not base64, and on one that
\* decodes to other bytes than the digest (the digest with one bit flipped
\* among them).
C7_SignatureCheck ==
    \A i \in Invocations :
        (Started(i) /\ pc[i] # "validate") =>
            LET s == HeaderValue(request[i].Headers, IntdashSignatureHeader)
                d == HMAC(h.SHA256Key, BodyBytes(request[i].Body))
            IN  /\ s = EncodeToString(d) => sigErr[i] = "nil"
                /\ s = << >> => sigErr[i] # "nil"
                /\ ~DecodeString(s).ok => sigErr[i] # "nil"
                /\ (DecodeString(s).ok /\ DecodeString(s).bytes # d) => sigErr[i] # "nil"
                /\ s \in BitFlips(h.SHA256Key, request[i].Body) => sigErr[i] # "nil"

\* C7 happens: the check has refused the encoding of the digest with one bit
\* flipped.
C7_Witness ==
    \E i \in Invocations :
        /\ pc[i] = "done"
        /\ HeaderValue(request[i].Headers, IntdashSignatureHeader)
             \in BitFlips(h.SHA256Key, request[i].Body)
        /\ sigErr[i] = "mismatch"

\* C8: for a non-empty series makeNotificationBody reports the arithmetic
\* mean and the sum of squared deviations over count - 1 (0 for one value):
\* [100] gives 100 and 0, [98, 102] gives 100 and 8, [10, 20, 30] gives 20
\* and 100.
C8_MeanAndVariance ==
    \A i \in Invocations :
        (dataPoints[i] # << >> /\ pc[i] # "aggregate") =>
            /\ avg[i] = Mean(dataPoints[i])
            /\ variance[i] = UnbiasedVariance(dataPoints[i])
            /\ Len(dataPoints[i]) = 1 => variance[i] = Float(0)
            /\ notificationBody[i] = Sprintf(Mean(dataPoints[i]),
                                             UnbiasedVariance(dataPoints[i]))
            /\ dataPoints[i] = << 100 >> =>
                 notificationBody[i] = "Average: 100.000000\nUnbiased Variance: 0.000000\n"
            /\ dataPoints[i] = << 98, 102 >> =>
                 notificationBody[i] = "Average: 100.000000\nUnbiased Variance: 8.000000\n"
            /\ dataPoints[i] = << 10, 20, 30 >> =>
                 notificationBody[i] = "Average: 20.000000\nUnbiased Variance: 100.000000\n"

\* C8 happens: [98, 102] has been reduced to 100 and 8.
C8_Witness ==
    \E i \in Invocations :
        /\ dataPoints[i] = << 98, 102 >>
        /\ avg[i] = Float(100) /\ variance[i] = Float(8)
        /\ notificationBody[i] = "Average: 100.000000\nUnbiased Variance: 8.000000\n"

\* C9: the average is never computed by dividing by a zero count: it is never
\* NaN, and no message with a NaN average is published.
C9_NoNaN ==
    \A i \in Invocations :
        /\ ~IsNaN(avg[i])
        /\ \A k \in 1 .. Len(publishCalls[i]) :
              publishCalls[i][k].Message # Sprintf(NaN, Float(0))

\* C10: on the one shared Handler every invocation goes on as it would
\* alone: one that has not ended is not cut short by another, and one that
\* has returned has given the response its own request and its own
\* collaborator results decide.
C10_SameAsAlone ==
    \A i \in Invocations :
        /\ ~Ended(i) => alive
        /\ Returned(i) =>
              response[i] = Expected(h, request[i], fetchRet[i], publishRet[i])

=============================================================================
